---- MODULE Spec2Model ----
(***************************************************************************)
(* Shape-level model of Codes/2DCNN/Models/SEDUNet.py: the graph builder   *)
(* SEDUNet.SEDUNet() and the primitive blocks it calls.  A tensor handle   *)
(* is its static shape [h, w, c] (batch axis left out); a layer is what it *)
(* does to that shape, or the error the engine raises at construction.     *)
(***************************************************************************)
EXTENDS Integers, Sequences, FiniteSets

\* ---------------------------------------------------------------- bounds
MaxLen == 4
MaxDepth == 2
MaxWidth == 3
MaxDenseLoop == 2
MaxSeRatio == 2
\* bounds of the stand-alone dense_block calls (SpecDense)
MaxDbChan == 3
MaxDbFilters == 3
MaxDbMultExp == 2
MaxDbLayers == 3

\* defaults of SEDUNet.__init__ that the model keeps fixed
output_nums == 1
feature_number == 1024

VARIABLES
    \* fields of the SEDUNet object (set by __init__, never written afterwards)
    length, width, model_depth, model_width, kernel_size, num_channel,
    problem_type, D_S, A_E, A_G, LSTM, dense_loop, se_ratio, is_transconv,
    \* the engine the build runs on: does it accept a Dense layer of zero units,
    \* a ConvLSTM2D of zero filters (fixed when the build first calls into it)
    engine,
    \* locals of SEDUNet.SEDUNet()
    pc, i, j, inputs, pool, conv, deconv, convs, levels, outputs, model, err,
    \* bookkeeping of what the build did
    nodes, nPool, nUp, seLog, lastDecode,
    \* arguments and result of the last dense_block call
    dbArgs, dbRes

cfgVars == <<length, width, model_depth, model_width, kernel_size, num_channel,
             problem_type, D_S, A_E, A_G, LSTM, dense_loop, se_ratio, is_transconv>>
vars == <<length, width, model_depth, model_width, kernel_size, num_channel,
          problem_type, D_S, A_E, A_G, LSTM, dense_loop, se_ratio, is_transconv,
          engine, pc, i, j, inputs, pool, conv, deconv, convs, levels, outputs,
          model, err, nodes, nPool, nUp, seLog, lastDecode, dbArgs, dbRes>>

\* ---------------------------------------------------------------- shapes
Pow2(n) == 2 ^ n

Tensor(h, w, c) == [h |-> h, w |-> w, c |-> c]

NoTensor == Tensor(0, 0, 0)

Numel(t) == t.h * t.w * t.c

SameSpatial(a, b) == a.h = b.h /\ a.w = b.w

Max(a, b) == IF a >= b THEN a ELSE b

\* two axis lengths an elementwise layer can combine: equal, or one of them 1
Broadcastable(a, b) == a = b \/ a = 1 \/ b = 1

CanBroadcast(a, b) ==
    Broadcastable(a.h, b.h) /\ Broadcastable(a.w, b.w) /\ Broadcastable(a.c, b.c)

BroadcastShape(a, b) == Tensor(Max(a.h, b.h), Max(a.w, b.w), Max(a.c, b.c))

\* ------------------------------------------------------- primitive blocks
\* Conv2D(model_width * multiplier, kernel, padding='same') + BN + ReLU
Conv_Block(x, mw, kernel, multiplier) == Tensor(x.h, x.w, mw * multiplier)

\* Conv2DTranspose(model_width * multiplier, (2, 2), strides=(2, 2)) + BN + ReLU
trans_conv2D(x, mw, multiplier) == Tensor(2 * x.h, 2 * x.w, mw * multiplier)

upConv_Block_NoChange(x) == Tensor(x.h, x.w, x.c)

\* UpSampling2D(size=(2, 2))
upConv_Block(x) == Tensor(2 * x.h, 2 * x.w, x.c)

\* concatenate([cat, arg], axis=-1): every axis but the last must agree
CanConcat(a, b) == SameSpatial(a, b)

Concat_Block(a, b) == Tensor(a.h, a.w, a.c + b.c)

\* MaxPooling2D(pool_size=(2, 2)), padding 'valid': needs a full window
CanPool(x) == x.h >= 2 /\ x.w >= 2

MaxPooling2D(x) == Tensor(x.h \div 2, x.w \div 2, x.c)

\* Conv2D(filters, (1, 1), strides=(s, s)), padding 'valid'
StridedLen(n, s) == IF n = 0 THEN 0 ELSE ((n - 1) \div s) + 1

Conv1x1(x, filters, s) == Tensor(StridedLen(x.h, s), StridedLen(x.w, s), filters)

Feature_Extraction_Block(x, mw, fn) == Tensor(x.h, x.w, mw)

dense_layer_2x(x, num_filters, kernel, multiplier) ==
    LET cb1 == Conv_Block(x, num_filters, kernel, multiplier)
        cb2 == Conv_Block(cb1, num_filters, kernel, multiplier)
    IN  Concat_Block(Concat_Block(x, cb1), cb2)

\* one pass of the loop body of dense_block
dense_layer(x, num_filters, kernel, multiplier) ==
    LET cb1 == Conv_Block(x, num_filters, kernel, multiplier)
        cb2 == Conv_Block(cb1, num_filters, kernel, multiplier)
    IN  Concat_Block(x, cb2)

RECURSIVE dense_block(_, _, _, _, _)
dense_block(x, num_filters, kernel, multiplier, num_layers) ==
    IF num_layers <= 0
    THEN x
    ELSE dense_block(dense_layer(x, num_filters, kernel, multiplier),
                     num_filters, kernel, multiplier, num_layers - 1)

\* SqueezeExcite: the reduce layer is Dense(nb_chan // ratio)
SqueezeUnits(x, ratio) == x.c \div ratio

SqueezeLogStrict(x, ratio, eng) ==
    [c |-> x.c, ratio |-> ratio, units |-> SqueezeUnits(x, ratio),
     ok |-> (x.c % ratio = 0)]

\* one SqueezeExcite call: what it was given, the units of its reduce layer,
\* and whether the engine built it
SqueezeLog(x, ratio, eng) ==
    [c |-> x.c, ratio |-> ratio, units |-> SqueezeUnits(x, ratio),
     ok |-> (SqueezeUnits(x, ratio) > 0 \/ eng.denseZero)]

\* Multiply()([x, y]) scales x channel-wise: the shape of x
SqueezeExcite(x, ratio) == x

Attention_Block_Stride1(skip_connection, gating_signal, num_filters, multiplier) ==
    LET conv1x1_1 == Conv1x1(skip_connection, num_filters * multiplier, 1)
        conv1x1_2 == Conv1x1(gating_signal, num_filters * multiplier, 1)
        conv1_2 == Conv1x1(BroadcastShape(conv1x1_1, conv1x1_2), 1, 1)
        resampler1 == upConv_Block(conv1_2)
        resampler2 == trans_conv2D(conv1_2, 1, 1)
        resampler == BroadcastShape(resampler1, resampler2)
    IN  [theta |-> conv1x1_1,
         phi |-> conv1x1_2,
         mask |-> resampler,
         ok |-> CanBroadcast(conv1x1_1, conv1x1_2)
                /\ CanBroadcast(resampler1, resampler2)
                /\ CanBroadcast(skip_connection, resampler),
         out |-> BroadcastShape(skip_connection, resampler)]

\* Attention_Block: the shapes of its intermediate tensors and of its result
Attention_Block(skip_connection, gating_signal, num_filters, multiplier) ==
    LET conv1x1_1 == Conv1x1(skip_connection, num_filters * multiplier, 2)
        conv1x1_2 == Conv1x1(gating_signal, num_filters * multiplier, 1)
        conv1_2 == Conv1x1(BroadcastShape(conv1x1_1, conv1x1_2), 1, 1)
        resampler1 == upConv_Block(conv1_2)
        resampler2 == trans_conv2D(conv1_2, 1, 1)
        resampler == BroadcastShape(resampler1, resampler2)
    IN  [theta |-> conv1x1_1,
         phi |-> conv1x1_2,
         mask |-> resampler,
         ok |-> CanBroadcast(conv1x1_1, conv1x1_2)
                /\ CanBroadcast(resampler1, resampler2)
                /\ CanBroadcast(skip_connection, resampler),
         out |-> BroadcastShape(skip_connection, resampler)]

ScaledWidthRoundUp(mw, e) == IF e >= 0 THEN mw * Pow2(e) ELSE (mw + 1) \div Pow2(0 - e)

\* np.int32(model_width * (2 ** e)), e >= -1: 2 ** -1 is the float 0.5
ScaledWidth(mw, e) == IF e >= 0 THEN mw * Pow2(e) ELSE mw \div Pow2(0 - e)

\* np.int32(n / (2 ** e)), e >= 0
ScaledLen(n, e) == n \div Pow2(e)

Reverse(s) == [k \in 1..Len(s) |-> s[Len(s) + 1 - k]]

\* layers a block adds to the graph
ConvBlockNodes == 3
TransConvNodes == 3
SqueezeNodes == 4
AttentionNodes == 15
FeatureNodes == 4
DenseLayerNodes == 7

\* ------------------------------------------------------------ the object
Flags == {0, 1}

KernelSizes == {0, 3}

Channels == {0, 1}

Engines == [denseZero : BOOLEAN, lstmZero : BOOLEAN]

NoEngine == [denseZero |-> FALSE, lstmZero |-> FALSE]

NoDecode ==
    [level |-> 0, skip |-> NoTensor, gate |-> NoTensor, up |-> NoTensor,
     theta |-> NoTensor, phi |-> NoTensor, mask |-> NoTensor,
     x1src |-> 0, x1tgt |-> 0, x2src |-> 0, x2tgt |-> 0,
     cat |-> 0, filters |-> 0, merged |-> NoTensor]

NoArgs == [x |-> NoTensor, num_filters |-> 0, multiplier |-> 0, num_layers |-> 0]

NoModel == [inputs |-> NoTensor, outputs |-> <<>>]

\* the locals before SEDUNet() has run a statement
InitLocals ==
    /\ i = 1 /\ j = 0
    /\ inputs = NoTensor /\ pool = NoTensor /\ conv = NoTensor /\ deconv = NoTensor
    /\ convs = <<>> /\ levels = <<>> /\ outputs = <<>>
    /\ model = NoModel /\ err = "none"
    /\ nodes = 0 /\ nPool = 0 /\ nUp = 0 /\ seLog = {} /\ lastDecode = NoDecode
    /\ dbRes = NoTensor

\* SEDUNet.__init__: the object as constructed, SEDUNet() not yet called
Init ==
    /\ length \in 0..MaxLen
    /\ width \in 0..MaxLen
    /\ model_depth \in 0..MaxDepth
    /\ model_width \in 0..MaxWidth
    /\ kernel_size \in KernelSizes
    /\ num_channel \in Channels
    /\ problem_type \in {"Classification", "Regression"}
    /\ D_S \in Flags /\ A_E \in Flags /\ A_G \in Flags /\ LSTM \in Flags
    /\ dense_loop \in 1..MaxDenseLoop
    /\ se_ratio \in 1..MaxSeRatio
    /\ is_transconv \in BOOLEAN
    /\ engine = NoEngine
    /\ pc = "guard"
    /\ dbArgs = NoArgs
    /\ InitLocals

Fail(kind) == pc' = "error" /\ err' = kind

GuardRejectsNoModelWidth ==
    length = 0 \/ model_depth = 0 \/ num_channel = 0 \/ kernel_size = 0

\* the condition of the ValueError at the top of SEDUNet()
GuardRejects ==
    length = 0 \/ model_depth = 0 \/ model_width = 0 \/ num_channel = 0 \/ kernel_size = 0


\* lines 126-134: the guard, then convs = {}, levels = [], the Input tensor
Guard ==
    /\ pc = "guard"
    /\ IF GuardRejects
       THEN /\ Fail("ValueError")
            /\ UNCHANGED <<inputs, pool, nodes, engine>>
       ELSE /\ pc' = "encode"
            /\ engine' \in Engines
            /\ inputs' = Tensor(length, width, num_channel)
            /\ pool' = Tensor(length, width, num_channel)
            /\ nodes' = nodes + 1
            /\ UNCHANGED err
    /\ UNCHANGED <<cfgVars, i, j, conv, deconv, convs, levels, outputs, model,
                   nPool, nUp, seLog, lastDecode, dbArgs, dbRes>>

\* lines 136-140: one pass of the encoder loop
Encode ==
    /\ pc = "encode"
    /\ i <= model_depth
    /\ LET c1 == Conv_Block(pool, model_width, kernel_size, Pow2(i - 1))
           c2 == Conv_Block(c1, model_width, kernel_size, Pow2(i - 1))
       IN  IF CanPool(c2)
           THEN /\ conv' = c2
                /\ pool' = MaxPooling2D(c2)
                /\ convs' = Append(convs, c2)
                /\ nPool' = nPool + 1
                /\ nodes' = nodes + 2 * ConvBlockNodes + 1
                /\ i' = i + 1
                /\ pc' = IF i = model_depth THEN "bottleneck" ELSE "encode"
                /\ UNCHANGED err
           ELSE /\ Fail("NegativeDimension")
                /\ conv' = c2
                /\ nodes' = nodes + 2 * ConvBlockNodes
                /\ UNCHANGED <<pool, convs, nPool, i>>
    /\ UNCHANGED <<cfgVars, engine, j, inputs, deconv, levels, outputs, model,
                   nUp, seLog, lastDecode, dbArgs, dbRes>>

\* lines 142-151: the bottleneck
Bottleneck ==
    /\ pc = "bottleneck"
    /\ LET args == [x |-> pool, num_filters |-> model_width,
                    multiplier |-> Pow2(model_depth), num_layers |-> dense_loop - 1]
           d == dense_block(pool, model_width, kernel_size, Pow2(model_depth), dense_loop - 1)
           f == IF A_E = 1 THEN Feature_Extraction_Block(d, model_width, feature_number) ELSE d
           c1 == Conv_Block(f, model_width, kernel_size, Pow2(model_depth))
           c2 == Conv_Block(c1, model_width, kernel_size, Pow2(model_depth))
       IN  /\ dbArgs' = args
           /\ dbRes' = d
           /\ conv' = c2
           /\ deconv' = c2
           /\ nodes' = nodes + DenseLayerNodes * (IF dense_loop > 1 THEN dense_loop - 1 ELSE 0)
                             + (IF A_E = 1 THEN FeatureNodes ELSE 0) + 2 * ConvBlockNodes
    /\ pc' = "decode"
    /\ UNCHANGED <<cfgVars, engine, i, j, inputs, pool, convs, levels, outputs, model, err,
                   nPool, nUp, seLog, lastDecode>>

\* step k of a decoder pass ran to its end (fail: the step refused, 0 for none)
Passed(fail, k) == fail = 0 \/ fail > k

Count(b, k) == IF b THEN k ELSE 0

\* lines 153-176: one pass of the decoder loop.  fail is the first step of the
\* pass that the engine refuses (0: none): 1 the attention gate, 2 the first
\* SqueezeExcite, 3 and 4 the two Reshape layers, 5 the ConvLSTM2D, 6 the
\* concatenation, 7 the second SqueezeExcite.
DecodePass ==
    LET level == model_depth - j
        e == model_depth - j - 1
        mult == Pow2(e)
        skip0 == convs[model_depth - j]
        att == Attention_Block(skip0, deconv, model_width, mult)
        skip == IF A_G = 1 THEN att.out ELSE skip0
        lvl == [name |-> "level", level |-> level, t |-> Conv1x1(deconv, 1, 1),
                activation |-> "linear"]
        up0 == IF is_transconv
               THEN trans_conv2D(deconv, model_width, mult)
               ELSE upConv_Block(deconv)
        se1 == SqueezeLog(up0, se_ratio, engine)
        up == SqueezeExcite(up0, se_ratio)
        target == Tensor(ScaledLen(length, e), ScaledLen(width, e),
                         ScaledWidth(model_width, e))
        filters == ScaledWidth(model_width, model_depth - j - 2)
        merged == IF LSTM = 1
                  THEN Tensor(target.h, target.w, filters)
                  ELSE Concat_Block(up, skip)
        c1 == Conv_Block(merged, model_width, kernel_size, mult)
        se2 == SqueezeLog(c1, se_ratio, engine)
        c2 == Conv_Block(SqueezeExcite(c1, se_ratio), model_width, kernel_size, mult)
        fail == IF A_G = 1 /\ ~att.ok THEN 1
                ELSE IF ~se1.ok THEN 2
                ELSE IF LSTM = 1 /\ Numel(skip) # Numel(target) THEN 3
                ELSE IF LSTM = 1 /\ Numel(up) # Numel(target) THEN 4
                ELSE IF LSTM = 1 /\ filters = 0 /\ ~engine.lstmZero THEN 5
                ELSE IF LSTM = 0 /\ ~CanConcat(up, skip) THEN 6
                ELSE IF ~se2.ok THEN 7
                ELSE 0
    IN  [fail |-> fail,
         kind |-> CASE fail \in {1, 6} -> "ShapeMismatch"
                    [] fail \in {2, 7} -> "ZeroUnits"
                    [] fail \in {3, 4} -> "ReshapeMismatch"
                    [] fail = 5 -> "ZeroFilters"
                    [] OTHER -> "none",
         deconv |-> IF fail = 0 THEN c2 ELSE deconv,
         levels |-> IF D_S = 1 /\ Passed(fail, 1) THEN Append(levels, lvl) ELSE levels,
         ups |-> Count(Passed(fail, 1), 1),
         seLog |-> (IF Passed(fail, 1) THEN {se1} ELSE {}) \cup (IF Passed(fail, 6) THEN {se2} ELSE {}),
         nodes |-> Count(A_G = 1 /\ Passed(fail, 1), AttentionNodes) + Count(D_S = 1 /\ Passed(fail, 1), 1)
                   + Count(Passed(fail, 1), IF is_transconv THEN TransConvNodes ELSE 1)
                   + Count(Passed(fail, 2), SqueezeNodes)
                   + Count(LSTM = 1 /\ Passed(fail, 3), 1) + Count(LSTM = 1 /\ Passed(fail, 4), 2)
                   + Count(LSTM = 1 /\ Passed(fail, 5), 1) + Count(LSTM = 0 /\ Passed(fail, 6), 1)
                   + Count(Passed(fail, 6), ConvBlockNodes)
                   + Count(Passed(fail, 7), SqueezeNodes + ConvBlockNodes),
         log |-> [level |-> level,
                  gate |-> deconv,
                  theta |-> IF A_G = 1 THEN att.theta ELSE NoTensor,
                  phi |-> IF A_G = 1 THEN att.phi ELSE NoTensor,
                  mask |-> IF A_G = 1 THEN att.mask ELSE NoTensor,
                  skip |-> IF Passed(fail, 1) THEN skip ELSE skip0,
                  up |-> IF Passed(fail, 1) THEN up ELSE NoTensor,
                  x1src |-> Count(LSTM = 1 /\ Passed(fail, 2), Numel(skip)),
                  x1tgt |-> Count(LSTM = 1 /\ Passed(fail, 2), Numel(target)),
                  x2src |-> Count(LSTM = 1 /\ Passed(fail, 3), Numel(up)),
                  x2tgt |-> Count(LSTM = 1 /\ Passed(fail, 3), Numel(target)),
                  cat |-> IF LSTM = 1 THEN Count(Passed(fail, 4), 2 * target.c)
                                      ELSE Count(Passed(fail, 2), up.c + skip.c),
                  filters |-> Count(LSTM = 1 /\ Passed(fail, 4), filters),
                  merged |-> IF Passed(fail, 6) THEN merged ELSE NoTensor]]

Decode ==
    /\ pc = "decode"
    /\ j < model_depth
    /\ LET r == DecodePass
       IN  /\ deconv' = r.deconv
           /\ levels' = r.levels
           /\ nUp' = nUp + r.ups
           /\ seLog' = seLog \cup r.seLog
           /\ nodes' = nodes + r.nodes
           /\ lastDecode' = r.log
           /\ err' = r.kind
           /\ j' = IF r.fail = 0 THEN j + 1 ELSE j
           /\ pc' = IF r.fail # 0 THEN "error"
                    ELSE IF j + 1 = model_depth THEN "output" ELSE "decode"
    /\ UNCHANGED <<cfgVars, engine, i, inputs, pool, conv, convs, outputs, model, nPool,
                   dbArgs, dbRes>>

LevelsNotReversed(ls, out) == Append(ls, out)

LevelsWithoutOutput(ls, out) == Reverse(ls)

\* lines 189-190: levels.append(outputs); levels.reverse()
LevelsWithOutput(ls, out) == Reverse(Append(ls, out))

\* lines 186-191: the outputs the returned Model is built on
ModelOutputs(ds, ls, out) == IF ds = 1 THEN ls ELSE <<out>>

\* lines 178-193: the output projection and the Model
Output ==
    /\ pc = "output"
    /\ LET out == [name |-> "out", level |-> 0,
                   t |-> Conv1x1(deconv, output_nums, 1),
                   activation |-> IF problem_type = "Classification"
                                  THEN "softmax" ELSE "linear"]
           ls == IF D_S = 1 THEN LevelsWithOutput(levels, out) ELSE levels
       IN  /\ outputs' = <<out>>
           /\ levels' = ls
           /\ model' = [inputs |-> inputs, outputs |-> ModelOutputs(D_S, ls, out)]
           /\ nodes' = nodes + 1
    /\ pc' = "done"
    /\ UNCHANGED <<cfgVars, engine, i, j, inputs, pool, conv, deconv, convs, err,
                   nPool, nUp, seLog, lastDecode, dbArgs, dbRes>>

Next == Guard \/ Encode \/ Bottleneck \/ Decode \/ Output

Spec == Init /\ [][Next]_vars

\* ------------------------------------------- dense_block called on its own
DbMults == {Pow2(k) : k \in 0..MaxDbMultExp}

InitDense ==
    /\ length = 1 /\ width = 1 /\ model_depth = 1 /\ model_width = 1
    /\ kernel_size = 3 /\ num_channel = 1 /\ problem_type = "Regression"
    /\ D_S = 0 /\ A_E = 0 /\ A_G = 0 /\ LSTM = 0
    /\ dense_loop = 1 /\ se_ratio = 1 /\ is_transconv = TRUE
    /\ engine = NoEngine
    /\ pc = "dense_block"
    /\ dbArgs \in [x : {Tensor(1, 1, c) : c \in 1..MaxDbChan},
                   num_filters : 1..MaxDbFilters,
                   multiplier : DbMults,
                   num_layers : 0..MaxDbLayers]
    /\ InitLocals

CallDenseBlock ==
    /\ pc = "dense_block"
    /\ dbRes' = dense_block(dbArgs.x, dbArgs.num_filters, kernel_size,
                            dbArgs.multiplier, dbArgs.num_layers)
    /\ pc' = "returned"
    /\ UNCHANGED <<cfgVars, engine, i, j, inputs, pool, conv, deconv, convs, levels, outputs,
                   model, err, nodes, nPool, nUp, seLog, lastDecode, dbArgs>>

NextDense == CallDenseBlock

SpecDense == InitDense /\ [][NextDense]_vars

\* ------------------------------------------------------------ properties
Divisible == length % Pow2(model_depth) = 0 /\ width % Pow2(model_depth) = 0

Spatial(t) == <<t.h, t.w>>

\* C1: a returned model has model_depth + 1 outputs when ds = 1 and exactly
\* one output when ds = 0.
C1_OutputCount ==
    pc = "done" => Len(model.outputs) = IF D_S = 1 THEN model_depth + 1 ELSE 1

C1_Witness == pc = "done" /\ D_S = 1 /\ model_depth = 2 /\ Len(model.outputs) = 3

\* C2: with ds = 1 the outputs of the returned model are 'out' first, then the
\* auxiliary output of level 1, level 2, ..., level model_depth last.
C2_OutputOrder ==
    (pc = "done" /\ D_S = 1) =>
        /\ Len(model.outputs) = model_depth + 1
        /\ model.outputs[1].name = "out"
        /\ \A k \in 1..model_depth :
               /\ model.outputs[k + 1].name = "level"
               /\ model.outputs[k + 1].level = k

C2_Witness ==
    /\ pc = "done" /\ D_S = 1 /\ model_depth = 2
    /\ model.outputs[2].level = 1 /\ model.outputs[3].level = 2

AnyOfFiveZero ==
    0 \in {length, model_depth, model_width, num_channel, kernel_size}

\* C3: when length, model_depth, model_width, num_channel or kernel_size is 0,
\* the build ends in the ValueError of the guard with no graph node created,
\* no input tensor, an empty skip map, an empty output collection and no model.
C3_GuardFailsFirst ==
    AnyOfFiveZero =>
        /\ pc \in {"guard", "error"}
        /\ pc = "error" => err = "ValueError"
        /\ nodes = 0 /\ inputs = NoTensor
        /\ convs = <<>> /\ levels = <<>> /\ model = NoModel

C3_Witness ==
    /\ pc = "error" /\ err = "ValueError" /\ nodes = 0
    /\ model_width = 0 /\ length > 0 /\ width > 0 /\ model_depth > 0
    /\ num_channel > 0 /\ kernel_size > 0 /\ D_S = 1 /\ LSTM = 1

\* C4: whenever any of the six dimensions length, width, model_depth,
\* model_width, kernel_size, num_channel is 0, the build fails before any
\* graph node is created.
C4_AnyZeroDimensionFailsFast ==
    0 \in {length, width, model_depth, model_width, kernel_size, num_channel} =>
        (pc \in {"guard", "error"} /\ nodes = 0)

ShapeErrors == {"ShapeMismatch", "NegativeDimension", "ReshapeMismatch"}

\* C5: with lstm = 0 and L, W positive multiples of 2^model_depth, no layer of
\* the build is refused for its shape, and the decoder tensor that reaches the
\* output stage has spatial dims (L, W) after exactly model_depth poolings and
\* model_depth upsamplings, whatever ds, ae, ag and is_transconv are.
C5_RoundTrip ==
    (LSTM = 0 /\ Divisible /\ length > 0 /\ width > 0) =>
        /\ err \notin ShapeErrors
        /\ pc \in {"output", "done"} =>
               /\ Spatial(deconv) = <<length, width>>
               /\ nPool = model_depth
               /\ nUp = model_depth

C5_Witness ==
    /\ pc = "done" /\ LSTM = 0 /\ model_depth = 2 /\ A_G = 1 /\ ~is_transconv
    /\ Spatial(deconv) = <<length, width>> /\ nUp = 2

\* C6: with L, W multiples of 2^model_depth, at every decoder pass the skip
\* tensor and the upsampled decoder tensor given to Concat_Block have the
\* spatial dims (L / 2^(level-1), W / 2^(level-1)); with ag = 1 the two
\* projections added inside Attention_Block have equal spatial dims and the
\* resampled mask has the spatial dims of the skip tensor.
C6_MatchingDims ==
    (Divisible /\ lastDecode.level > 0) =>
        LET e == lastDecode.level - 1
            dims == <<length \div Pow2(e), width \div Pow2(e)>>
        IN  /\ (LSTM = 0 /\ lastDecode.up # NoTensor) =>
                   /\ Spatial(lastDecode.skip) = dims
                   /\ Spatial(lastDecode.up) = dims
            /\ A_G = 1 =>
                   /\ Spatial(lastDecode.theta) = Spatial(lastDecode.phi)
                   /\ Spatial(lastDecode.mask) = Spatial(convs[lastDecode.level])
                   /\ Spatial(lastDecode.mask) = dims

C6_Witness ==
    /\ pc = "output" /\ model_depth = 2 /\ lastDecode.level = 1
    /\ A_G = 1 /\ LSTM = 0
    /\ Spatial(lastDecode.theta) = Spatial(lastDecode.phi)
    /\ Spatial(lastDecode.up) = Spatial(lastDecode.skip)

\* C7 as stated: dense_block returns C + n * 2 * width * multiplier channels.
C7_TwoPerLayer ==
    pc = "returned" =>
        dbRes.c = dbArgs.x.c + dbArgs.num_layers * 2 * dbArgs.num_filters * dbArgs.multiplier

\* C7 as amended: dense_block returns C + n * width * multiplier channels
\* (each pass concatenates one Conv_Block output onto the running tensor).
C7_OnePerLayer ==
    pc = "returned" =>
        dbRes.c = dbArgs.x.c + dbArgs.num_layers * dbArgs.num_filters * dbArgs.multiplier

C7_Witness ==
    /\ pc = "returned" /\ dbArgs.num_layers = 3 /\ dbArgs.x.c = 2
    /\ dbArgs.num_filters = 3 /\ dbArgs.multiplier = 2 /\ dbRes.c = 20

C9_HalfOfConcat ==
    (LSTM = 1 /\ lastDecode.merged # NoTensor /\ lastDecode.filters >= 1) =>
        2 * lastDecode.merged.c = lastDecode.cat

\* C9 as amended: the recurrent merge is built with
\* floor(model_width * 2^(level-1) / 2) filters: half the channels of one
\* operand, a quarter of what plain concatenation would have (exactly so for
\* level >= 2 or an even model_width).
C9_QuarterOfConcat ==
    (LSTM = 1 /\ lastDecode.cat > 0) =>
        LET one == model_width * Pow2(lastDecode.level - 1)
        IN  /\ lastDecode.cat = 2 * one
            /\ lastDecode.filters = one \div 2
            /\ lastDecode.merged # NoTensor => lastDecode.merged.c = lastDecode.filters
            /\ (lastDecode.level >= 2 \/ model_width % 2 = 0) =>
                   4 * lastDecode.filters = lastDecode.cat

C9_Witness ==
    /\ LSTM = 1 /\ pc = "output" /\ lastDecode.level = 1 /\ model_width = 3
    /\ lastDecode.cat = 6 /\ lastDecode.merged.c = 1

\* C10: with lstm = 1 and L, W multiples of 2^model_depth, both Reshape layers
\* of every decoder pass are given a tensor with as many elements as their
\* target shape, whether is_transconv is true or false.
C10_ReshapeCountsMatch ==
    (LSTM = 1 /\ Divisible) =>
        /\ lastDecode.x1src = lastDecode.x1tgt
        /\ lastDecode.x2src = lastDecode.x2tgt

====
